---- MODULE Spec2Model ----
(***************************************************************************)
(* Model of src/experiments.rs of crater: the experiments table, the       *)
(* scheduler Experiment::next, the status state machine                    *)
(* Experiment::set_status and the Assignee text codec.                     *)
(*                                                                         *)
(* An Option<T> is a sequence of length at most one: <<>> is None / NULL,  *)
(* <<x>> is Some(x).  A text is a sequence of one-character strings.       *)
(***************************************************************************)
EXTENDS Integers, Sequences, FiniteSets, TLC

\* ------------------------------------------------------------------ bounds
\* timestamps are 0..MaxClock
MaxClock == 1
\* the number of set_status calls callers other than next make in a behaviour
MaxSetStatus == 1
\* ... and in a behaviour where two callers hold copies of one experiment
MaxKeptSetStatus == 2
\* the number of rows recorded in the results table
MaxResults == 4
\* the counts raw_progress gives progress: results, and crates that are not
\* skipped
MaxResultsLen == 104
MaxCratesLen == 52
\* the pieces an input of from_str is made of, and those of an agent's name
MaxTokens == 4
MaxNameTokens == 2

\* ------------------------------------------------------------ value types
None == <<>>
Some(x) == <<x>>

\* string_enum!(pub enum Status ...)
Status ==
    {"queued", "running", "needs-report", "failed", "generating-report",
     "report-failed", "completed"}

\* the statuses callers of set_status pass in the model
StatusInputs == {"queued", "running", "failed", "completed"}

\* pub enum Assignee { Agent(String), CLI }
Agent(name) == [kind |-> "Agent", name |-> name]
CLI == [kind |-> "CLI", name |-> <<>>]

AgentNames == {<<"1">>}
Assignees == {Agent(n) : n \in AgentNames} \cup {CLI}

AgentText == <<"a", "g", "e", "n", "t">>
CliText == <<"c", "l", "i">>

\* impl fmt::Display for Assignee
to_string(a) ==
    IF a.kind = "Agent" THEN AgentText \o <<":">> \o a.name ELSE CliText

\* str::trim().is_empty(): every character is white space
trim_is_empty(s) == \A i \in 1..Len(s) : s[i] \in {" ", "\t", "\n"}

\* position of the first ':' of s, 0 when there is none (splitn(2, ':'))
first_colon(s) ==
    IF \E i \in 1..Len(s) : s[i] = ":"
    THEN CHOOSE i \in 1..Len(s) : s[i] = ":" /\ \A j \in 1..(i - 1) : s[j] # ":"
    ELSE 0

ParseOk(a) == [tag |-> "Ok", val |-> a, kind |-> <<>>]
ParseErr(e, k) == [tag |-> e, val |-> CLI, kind |-> k]

\* from_str with input.split(':') in place of input.splitn(2, ':'): the
\* payload ends at the second ':'
from_str_split(input) ==
    IF trim_is_empty(input) THEN ParseErr("Empty", <<>>)
    ELSE LET c == first_colon(input)
             kind == IF c = 0 THEN input ELSE SubSeq(input, 1, c - 1)
             rest == IF c = 0 THEN <<>> ELSE SubSeq(input, c + 1, Len(input))
             d == first_colon(rest)
             payload == IF c = 0 THEN None
                        ELSE IF d = 0 THEN Some(rest)
                        ELSE Some(SubSeq(rest, 1, d - 1))
         IN  IF kind = AgentText
             THEN IF payload = None THEN ParseErr("Empty", <<>>)
                  ELSE IF trim_is_empty(payload[1]) THEN ParseErr("Empty", <<>>)
                  ELSE ParseOk(Agent(payload[1]))
             ELSE IF kind = CliText
             THEN IF payload # None THEN ParseErr("UnexpectedPayload", <<>>)
                  ELSE ParseOk(CLI)
             ELSE ParseErr("InvalidKind", kind)

\* from_str with name.is_empty() in place of name.trim().is_empty()
from_str_untrimmed(input) ==
    IF trim_is_empty(input) THEN ParseErr("Empty", <<>>)
    ELSE LET c == first_colon(input)
             kind == IF c = 0 THEN input ELSE SubSeq(input, 1, c - 1)
             payload == IF c = 0 THEN None
                        ELSE Some(SubSeq(input, c + 1, Len(input)))
         IN  IF kind = AgentText
             THEN IF payload = None THEN ParseErr("Empty", <<>>)
                  ELSE IF payload[1] = <<>> THEN ParseErr("Empty", <<>>)
                  ELSE ParseOk(Agent(payload[1]))
             ELSE IF kind = CliText
             THEN IF payload # None THEN ParseErr("UnexpectedPayload", <<>>)
                  ELSE ParseOk(CLI)
             ELSE ParseErr("InvalidKind", kind)

\* impl FromStr for Assignee
from_str(input) ==
    IF trim_is_empty(input) THEN ParseErr("Empty", <<>>)
    ELSE LET c == first_colon(input)
             kind == IF c = 0 THEN input ELSE SubSeq(input, 1, c - 1)
             payload == IF c = 0 THEN None
                        ELSE Some(SubSeq(input, c + 1, Len(input)))
         IN  IF kind = AgentText
             THEN IF payload = None THEN ParseErr("Empty", <<>>)
                  ELSE IF trim_is_empty(payload[1]) THEN ParseErr("Empty", <<>>)
                  ELSE ParseOk(Agent(payload[1]))
             ELSE IF kind = CliText
             THEN IF payload # None THEN ParseErr("UnexpectedPayload", <<>>)
                  ELSE ParseOk(CLI)
             ELSE ParseErr("InvalidKind", kind)

\* ------------------------------------------------------------------ state
\* the experiments, in the order they are created
Names == {1, 2}
\* the experiments the tests create: <<priority, requirement, assign>>
CreateInputs ==
    {<<0, None, None>>,                              \* "test"
     <<10, None, None>>,                             \* "important"
     <<0, Some("windows"), None>>,                   \* "windows"
     <<0, None, Some(Agent(<<"1">>))>>}              \* "assigned"
Capabilities == {"windows"}
Calls == {"c1", "c2"}
\* the caller of next where calls run one after the other
Callers == {"c1"}
Handles == {"h1", "h2"}
\* the caller that holds a copy where one holder is enough
Holders == {"h1"}

VARIABLES
    experiments,         \* the experiments table: name -> row
    agent_capabilities,  \* the agent_capabilities table: agent name -> tags
    clock,               \* what Utc::now() returns
    call,                \* the calls of Experiment::next, by caller
    handle,              \* in-memory Experiments held by callers of set_status
    set_status_calls,    \* how many set_status calls the holders have made
    claimed,             \* history: assignee -> the experiment next last returned
                         \* to it as new, if its status and assignment are untouched since
    experiment_crates,   \* the experiment_crates table: rows [experiment, crate, skipped]
    results,             \* the results table: <<experiment, crate, toolchain>> -> rows
    probe                \* a call of a function that writes nothing: the value it is
                         \* called on, its input and its output

\* what the scheduler and the status state machine work on
scheduling ==
    <<experiments, agent_capabilities, clock, call, handle, set_status_calls,
      claimed>>

\* what the progress accounting and the functions without side effects work on
accounting == <<experiment_crates, results, probe>>

vars == <<scheduling, accounting>>

\* struct Experiment, the fields the scheduler and the state machine use
NoExperiment ==
    [name |-> 0, priority |-> 0, created_at |-> 0, started_at |-> None,
     completed_at |-> None, status |-> "queued", assigned_to |-> None,
     requirement |-> None]

\* ExperimentDBRecord::into_experiment: the row of `name` as an Experiment,
\* Err when the assigned_to text does not parse
into_experiment(name, row) ==
    LET parsed == IF row.assigned_to = None THEN ParseOk(CLI)
                  ELSE from_str(row.assigned_to[1])
    IN  IF parsed.tag # "Ok" THEN [ok |-> FALSE, val |-> NoExperiment]
        ELSE [ok |-> TRUE,
              val |-> [name |-> name,
                       priority |-> row.priority,
                       created_at |-> row.created_at,
                       started_at |-> row.started_at,
                       completed_at |-> row.completed_at,
                       status |-> row.status,
                       assigned_to |-> IF row.assigned_to = None THEN None
                                       ELSE Some(parsed.val),
                       requirement |-> row.requirement]]

IdleCall ==
    [pc |-> "idle", assignee |-> CLI, exp |-> NoExperiment, now |-> 0,
     result |-> [tag |-> "pending", new |-> FALSE, exp |-> NoExperiment]]

IdleHandle == [pc |-> "idle", exp |-> NoExperiment, status |-> "queued", now |-> 0]

\* the crates of the test lists and the two toolchains of an experiment
Crates == {"crate1", "crate2"}
Toolchains == {"start", "end"}
ResultKeys == Names \X Crates \X Toolchains

\* no call of a function without side effects is recorded
NoProbe == [op |-> "none", self |-> CLI, input |-> <<>>, out |-> None]

\* no experiment, no call of next, no copy held
InitScheduling ==
    /\ experiments = [n \in Names |-> None]
    /\ agent_capabilities = [n \in AgentNames |-> {}]
    /\ clock = 0
    /\ call = [c \in Calls |-> IdleCall]
    /\ handle = [h \in Handles |-> IdleHandle]
    /\ set_status_calls = 0
    /\ claimed = [a \in Assignees |-> None]

\* no crates, no results
InitAccounting ==
    /\ experiment_crates = {}
    /\ results = [k \in ResultKeys |-> 0]
    /\ probe = NoProbe

Init == InitScheduling /\ InitAccounting

\* ---------------------------------------------------------- store access
Exists(n) == experiments[n] # None
Row(n) == experiments[n][1]

\* UPDATE experiments SET <field> = value, the WHERE clause left out
UpdateAll(db, n, field, value) ==
    [m \in DOMAIN db |->
        IF db[m] = None THEN db[m] ELSE Some([db[m][1] EXCEPT ![field] = value])]

\* UPDATE experiments SET <field> = value WHERE name = n
Update(db, n, field, value) ==
    [db EXCEPT ![n] = IF @ = None THEN @ ELSE Some([@[1] EXCEPT ![field] = value])]

\* run_by binding the agent's name in place of the assignee's text
RunByMatchesName(n, assignee) ==
    /\ Exists(n)
    /\ Row(n).status = "running"
    /\ Row(n).assigned_to = Some(assignee.name)

\* run_by without its assigned_to condition
RunByMatchesAnyAssignee(n, assignee) ==
    /\ Exists(n)
    /\ Row(n).status = "running"

\* Experiment::run_by: WHERE status = "running" AND assigned_to = ?2
RunByMatches(n, assignee) ==
    /\ Exists(n)
    /\ Row(n).status = "running"
    /\ Row(n).assigned_to = Some(to_string(assignee))

run_by(assignee) == {n \in Names : RunByMatches(n, assignee)}

\* WHERE ex.status != "completed", the condition of Experiment::unfinished
StatusClauseUnfinished(n) == Row(n).status # "completed"

\* WHERE ex.status = "queued"
StatusClause(n) == Row(n).status = "queued"

\* the query without its assigned_to condition
AssignedClauseAny(n, assignee) == TRUE

\* AND ( ex.assigned_to IS NULL OR ex.assigned_to = ?2 )
AssignedClause(n, assignee) ==
    Row(n).assigned_to = None \/ Row(n).assigned_to = Some(to_string(assignee))

\* CLI_QUERY run for every assignee: no requirement condition
RequirementClauseCli(n, assignee) == TRUE

\* AGENT_QUERY run for the CLI too, which has no row in agent_capabilities
RequirementClauseAgent(n, assignee) ==
    \/ Row(n).requirement = None
    \/ /\ assignee.kind = "Agent"
       /\ Row(n).requirement[1] \in agent_capabilities[assignee.name]

\* AGENT_QUERY with `ex.requirement IS NULL` alone, the capabilities not read
RequirementClauseNull(n, assignee) ==
    assignee.kind = "Agent" => Row(n).requirement = None

\* AND ( ex.requirement IS NULL OR ex.requirement IN (SELECT capability FROM
\* agent_capabilities WHERE agent_name = ?1) ); CLI_QUERY has no such clause
RequirementClause(n, assignee) ==
    assignee.kind = "Agent" =>
        \/ Row(n).requirement = None
        \/ Row(n).requirement[1] \in agent_capabilities[assignee.name]

\* the WHERE clause of AGENT_QUERY / CLI_QUERY
QueryMatches(n, assignee) ==
    /\ Exists(n)
    /\ StatusClause(n)
    /\ AssignedClause(n, assignee)
    /\ RequirementClause(n, assignee)

\* ORDER BY ex.priority DESC, ex.created_at: the assigned_to key left out
OrderedBeforeByPriority(n, m) ==
    \/ Row(n).priority > Row(m).priority
    \/ Row(n).priority = Row(m).priority /\ Row(n).created_at < Row(m).created_at

\* ORDER BY ex.assigned_to IS NULL, ex.priority, ex.created_at: DESC left out
OrderedBeforeAscending(n, m) ==
    LET nn == IF Row(n).assigned_to = None THEN 1 ELSE 0
        mn == IF Row(m).assigned_to = None THEN 1 ELSE 0
    IN  \/ nn < mn
        \/ nn = mn /\ Row(n).priority < Row(m).priority
        \/ nn = mn /\ Row(n).priority = Row(m).priority
                   /\ Row(n).created_at < Row(m).created_at

\* ORDER BY ex.assigned_to IS NULL, ex.priority DESC, ex.created_at:
\* row n sorts strictly before row m
OrderedBefore(n, m) ==
    LET nn == IF Row(n).assigned_to = None THEN 1 ELSE 0
        mn == IF Row(m).assigned_to = None THEN 1 ELSE 0
    IN  \/ nn < mn
        \/ nn = mn /\ Row(n).priority > Row(m).priority
        \/ nn = mn /\ Row(n).priority = Row(m).priority
                   /\ Row(n).created_at < Row(m).created_at

\* LIMIT 1: the rows the query may return (rows that tie are in no fixed order)
TopCandidates(assignee) ==
    {n \in Names : /\ QueryMatches(n, assignee)
                   /\ \A m \in Names :
                        QueryMatches(m, assignee) => ~OrderedBefore(m, n)}

\* ---------------------------------------------------- Experiment::set_status
\* if status == Status::Running && self.started_at.is_none()
StampsStarted(self, status) == status = "running" /\ self.started_at = None

\* StampsCompleted without its test of self.status
StampsCompletedAnyStatus(self, status) ==
    /\ ~(status = "running" /\ self.started_at = None)
    /\ self.completed_at = None
    /\ status # "failed"

\* else if self.status == Status::Running && self.completed_at.is_none()
\*         && status != Status::Failed
StampsCompleted(self, status) ==
    /\ ~StampsStarted(self, status)
    /\ self.status = "running"
    /\ self.completed_at = None
    /\ status # "failed"

\* the timestamp UPDATE of set_status, if any
StampStore(db, self, status, now) ==
    IF StampsStarted(self, status)
    THEN Update(db, self.name, "started_at", Some(now))
    ELSE IF StampsCompleted(self, status)
    THEN Update(db, self.name, "completed_at", Some(now))
    ELSE db

\* set_status without its self.started_at / self.completed_at assignments
StampSelfStatusOnly(self, status, now) == [self EXCEPT !.status = status]

\* self after set_status: the stamped field, then self.status = status
StampSelf(self, status, now) ==
    LET stamped == IF StampsStarted(self, status)
                   THEN [self EXCEPT !.started_at = Some(now)]
                   ELSE IF StampsCompleted(self, status)
                   THEN [self EXCEPT !.completed_at = Some(now)]
                   ELSE self
    IN  [stamped EXCEPT !.status = status]

\* a status or assignment write to experiment n ends what `claimed` records of it
Touched(n) == [a \in Assignees |-> IF claimed[a] = Some(n) THEN None ELSE claimed[a]]

\* ------------------------------------------------------- Experiment::next
SomeResult(new, e) == [tag |-> "some", new |-> new, exp |-> e]
NoneResult == [tag |-> "none", new |-> FALSE, exp |-> NoExperiment]
ErrResult == [tag |-> "err", new |-> FALSE, exp |-> NoExperiment]

Finish(c, result) ==
    call' = [call EXCEPT ![c] = [IdleCall EXCEPT !.pc = "done",
                                                 !.assignee = call[c].assignee,
                                                 !.result = result]]

\* if let Some(experiment) = Experiment::run_by(db, assignee)? { return ... }
NextRunBy(c, assignee) ==
    /\ call[c].pc = "idle"
    /\ IF run_by(assignee) # {}
       THEN \E n \in run_by(assignee) :
                LET e == into_experiment(n, Row(n))
                IN  call' = [call EXCEPT
                        ![c] = [IdleCall EXCEPT
                            !.pc = "done",
                            !.assignee = assignee,
                            !.result = IF e.ok THEN SomeResult(FALSE, e.val)
                                       ELSE ErrResult]]
       ELSE call' = [call EXCEPT ![c] = [IdleCall EXCEPT !.pc = "query",
                                                       !.assignee = assignee]]
    /\ UNCHANGED accounting
    /\ UNCHANGED <<experiments, agent_capabilities, clock, handle, set_status_calls, claimed>>

\* let next = db.get_row(query, ...)?; ... record.into_experiment()?
NextQuery(c) ==
    /\ call[c].pc = "query"
    /\ IF TopCandidates(call[c].assignee) = {}
       THEN Finish(c, NoneResult)
       ELSE \E n \in TopCandidates(call[c].assignee) :
                LET e == into_experiment(n, Row(n))
                IN  IF e.ok
                    THEN call' = [call EXCEPT ![c].pc = "set_status",
                                              ![c].exp = e.val]
                    ELSE Finish(c, ErrResult)
    /\ UNCHANGED accounting
    /\ UNCHANGED <<experiments, agent_capabilities, clock, handle, set_status_calls, claimed>>

\* experiment.set_status(&db, Status::Running)?: the status UPDATE, Utc::now()
NextSetStatus(c) ==
    /\ call[c].pc = "set_status"
    /\ experiments' = Update(experiments, call[c].exp.name, "status", "running")
    /\ call' = [call EXCEPT ![c].pc = "stamp", ![c].now = clock]
    /\ claimed' = Touched(call[c].exp.name)
    /\ UNCHANGED accounting
    /\ UNCHANGED <<agent_capabilities, clock, handle, set_status_calls>>

\* ... the timestamp UPDATE of set_status and self.status = status
NextStamp(c) ==
    /\ call[c].pc = "stamp"
    /\ experiments' = StampStore(experiments, call[c].exp, "running", call[c].now)
    /\ call' = [call EXCEPT
                    ![c].pc = "assign",
                    ![c].exp = StampSelf(call[c].exp, "running", call[c].now)]
    /\ UNCHANGED accounting
    /\ UNCHANGED <<agent_capabilities, clock, handle, set_status_calls, claimed>>

\* experiment.set_assigned_to(&db, Some(assignee))?; return Ok(Some((true, ..)))
NextAssign(c) ==
    /\ call[c].pc = "assign"
    /\ experiments' = Update(experiments, call[c].exp.name, "assigned_to",
                             Some(to_string(call[c].assignee)))
    /\ Finish(c, SomeResult(TRUE, [call[c].exp EXCEPT
                                      !.assigned_to = Some(call[c].assignee)]))
    /\ claimed' = [Touched(call[c].exp.name) EXCEPT
                        ![call[c].assignee] = Some(call[c].exp.name)]
    /\ UNCHANGED accounting
    /\ UNCHANGED <<agent_capabilities, clock, handle, set_status_calls>>

\* the caller drops the result of the call
NextReturn(c) ==
    /\ call[c].pc = "done"
    /\ call' = [call EXCEPT ![c] = IdleCall]
    /\ UNCHANGED accounting
    /\ UNCHANGED <<experiments, agent_capabilities, clock, handle, set_status_calls, claimed>>

\* the store after next(assignee) has claimed candidate n at time now:
\* set_status(Running), then set_assigned_to(Some(assignee))
ClaimStore(n, assignee, now) ==
    LET e == into_experiment(n, Row(n)).val
        written == Update(experiments, n, "status", "running")
        stamped == StampStore(written, e, "running", now)
    IN  Update(stamped, n, "assigned_to", Some(to_string(assignee)))

\* Experiment::next, its statements in one step with no other writer in
\* between: a Running experiment of the assignee or no candidate, and nothing
\* is written; else the first candidate is claimed
Poll(assignee) ==
    /\ IF run_by(assignee) # {} \/ TopCandidates(assignee) = {}
       THEN UNCHANGED <<experiments, claimed>>
       ELSE \E n \in TopCandidates(assignee) :
                IF into_experiment(n, Row(n)).ok
                THEN /\ experiments' = ClaimStore(n, assignee, clock)
                     /\ claimed' = [Touched(n) EXCEPT ![assignee] = Some(n)]
                ELSE UNCHANGED <<experiments, claimed>>
    /\ UNCHANGED accounting
    /\ UNCHANGED <<agent_capabilities, clock, call, handle, set_status_calls>>

\* -------------------------------------------------------- callers' copies
\* Experiment::get
GetWithin(h, n, limit) ==
    /\ handle[h].pc \in {"idle", "held"}
    /\ set_status_calls < limit
    /\ Exists(n)
    /\ into_experiment(n, Row(n)).ok
    /\ handle' = [handle EXCEPT ![h] = [IdleHandle EXCEPT
                        !.pc = "held", !.exp = into_experiment(n, Row(n)).val]]
    /\ UNCHANGED accounting
    /\ UNCHANGED <<experiments, agent_capabilities, clock, call, set_status_calls, claimed>>

\* Experiment::set_status on a held copy: the status UPDATE, Utc::now()
SetStatusWithin(h, status, limit) ==
    /\ handle[h].pc = "held"
    /\ set_status_calls < limit
    /\ experiments' = Update(experiments, handle[h].exp.name, "status", status)
    /\ handle' = [handle EXCEPT ![h].pc = "stamp", ![h].status = status,
                                ![h].now = clock]
    /\ set_status_calls' = set_status_calls + 1
    /\ claimed' = Touched(handle[h].exp.name)
    /\ UNCHANGED accounting
    /\ UNCHANGED <<agent_capabilities, clock, call>>

\* the holders' calls while fewer than MaxSetStatus set_status calls were made
Get(h, n) == GetWithin(h, n, MaxSetStatus)
SetStatus(h, status) == SetStatusWithin(h, status, MaxSetStatus)

\* ... the timestamp UPDATE of set_status and self.status = status
SetStatusStamp(h) ==
    /\ handle[h].pc = "stamp"
    /\ experiments' = StampStore(experiments, handle[h].exp, handle[h].status,
                                 handle[h].now)
    /\ handle' = [handle EXCEPT ![h] = IdleHandle]
    /\ UNCHANGED accounting
    /\ UNCHANGED <<agent_capabilities, clock, call, set_status_calls, claimed>>

\* ... after which the caller goes on with the Experiment it called set_status
\* on: self has the stamped field and self.status = status
SetStatusStampKept(h) ==
    /\ handle[h].pc = "stamp"
    /\ experiments' = StampStore(experiments, handle[h].exp, handle[h].status,
                                 handle[h].now)
    /\ handle' = [handle EXCEPT ![h] = [IdleHandle EXCEPT
                        !.pc = "held",
                        !.exp = StampSelf(handle[h].exp, handle[h].status,
                                          handle[h].now)]]
    /\ UNCHANGED accounting
    /\ UNCHANGED <<agent_capabilities, clock, call, set_status_calls, claimed>>

\* Experiment::get and set_status(status) on the copy, in one step: a Running
\* experiment is moved out of Running
MoveOut(n, status) ==
    /\ Exists(n)
    /\ Row(n).status = "running"
    /\ status \notin {"queued", "running"}
    /\ into_experiment(n, Row(n)).ok
    /\ experiments' = StampStore(Update(experiments, n, "status", status),
                                 into_experiment(n, Row(n)).val, status, clock)
    /\ claimed' = Touched(n)
    /\ UNCHANGED accounting
    /\ UNCHANGED <<agent_capabilities, clock, call, handle, set_status_calls>>

\* ------------------------------------------------------------ environment
\* CreateExperiment::apply: a new row, Queued, with no timestamps
CreateExperiment(n, priority, requirement, assign) ==
    /\ ~Exists(n)
    /\ \A m \in Names : m < n => Exists(m)
    /\ experiments' = [experiments EXCEPT ![n] = Some(
            [priority |-> priority, created_at |-> clock, started_at |-> None,
             completed_at |-> None, status |-> "queued",
             assigned_to |-> IF assign = None THEN None
                             ELSE Some(to_string(assign[1])),
             requirement |-> requirement])]
    /\ UNCHANGED accounting
    /\ UNCHANGED <<agent_capabilities, clock, call, handle, set_status_calls, claimed>>

\* the agent registry sets an agent's capability tags
SetCapabilities(name, caps) ==
    /\ agent_capabilities[name] # caps
    /\ agent_capabilities' = [agent_capabilities EXCEPT ![name] = caps]
    /\ UNCHANGED accounting
    /\ UNCHANGED <<experiments, clock, call, handle, set_status_calls, claimed>>

\* time passes
Tick ==
    /\ clock < MaxClock
    /\ clock' = clock + 1
    /\ UNCHANGED accounting
    /\ UNCHANGED <<experiments, agent_capabilities, call, handle, set_status_calls, claimed>>

\* ------------------------------------------------------ the Assignee codec
\* the pieces the texts given to from_str are made of
Tokens == {AgentText, CliText, <<":">>, <<" ">>, <<"x">>}
NameTokens == {<<":">>, <<" ">>, <<"x">>}

RECURSIVE TextsOf(_, _)
\* the texts made of at most n pieces of `tokens`
TextsOf(tokens, n) ==
    IF n = 0 THEN {<<>>}
    ELSE LET shorter == TextsOf(tokens, n - 1)
         IN  shorter \cup {s \o k : s \in shorter, k \in tokens}

\* the Assignee values: CLI and Agent(name), name not empty
AssigneeValues ==
    {CLI} \cup {Agent(name) : name \in TextsOf(NameTokens, MaxNameTokens) \ {<<>>}}

\* a caller calls Assignee::from_str(input)
CallFromStr ==
    /\ probe.op = "from_str"
    /\ probe.out = None
    /\ probe' = [probe EXCEPT !.out = Some(from_str(probe.input[1]))]
    /\ UNCHANGED <<experiment_crates, results>>
    /\ UNCHANGED scheduling

\* a caller calls a.to_string()
CallToString ==
    /\ probe.op = "to_string"
    /\ probe.out = None
    /\ probe' = [probe EXCEPT !.out = Some(to_string(probe.self))]
    /\ UNCHANGED <<experiment_crates, results>>
    /\ UNCHANGED scheduling

\* ... and parses the text it got
CallParseBack ==
    /\ probe.op = "to_string"
    /\ probe.out # None
    /\ probe' = [probe EXCEPT !.op = "parse_back",
                              !.out = Some(from_str(probe.out[1]))]
    /\ UNCHANGED <<experiment_crates, results>>
    /\ UNCHANGED scheduling

\* ---------------------------------------------------- progress accounting
RECURSIVE Pow2(_)
Pow2(n) == IF n = 0 THEN 1 ELSE 2 * Pow2(n - 1)

\* the exponent of n >= 1: the k with 2^k <= n < 2^(k+1)
RECURSIVE Log2(_)
Log2(n) == IF n < 2 THEN 0 ELSE 1 + Log2(n \div 2)

\* floor + 1 or floor: round to nearest, ties to the even mantissa; rem / den
\* is what floor leaves out
RoundNearestEven(floor, rem, den) ==
    IF 2 * rem > den \/ (2 * rem = den /\ floor % 2 = 1) THEN floor + 1 ELSE floor

\* `n as f32` for an integer n >= 0: n kept to a mantissa of 24 bits.  An f32
\* here is [m, s], the value m / 2^s
as_f32(n) ==
    IF n < Pow2(24) THEN [m |-> n, s |-> 0]
    ELSE LET u == Pow2(Log2(n) - 23)
         IN  [m |-> u * RoundNearestEven(n \div u, n % u, u), s |-> 0]

\* x * 100.0 for an f32 x that holds an integer
f32_times_100(x) == as_f32(x.m * 100)

\* x / y for f32 x and y that hold integers, y > 0: the quotient rounded to a
\* mantissa of 24 bits
f32_div(x, y) ==
    IF x.m = 0 THEN [m |-> 0, s |-> 0]
    ELSE IF x.m >= y.m
    THEN LET s == 23 - Log2(x.m \div y.m)
             a == x.m \div y.m
             r == x.m % y.m
         IN  [m |-> RoundNearestEven(a * Pow2(s) + (r * Pow2(s)) \div y.m,
                                     (r * Pow2(s)) % y.m, y.m),
              s |-> s]
    ELSE LET j == CHOOSE j \in 1..24 : /\ x.m * Pow2(j) >= y.m
                                       /\ x.m * Pow2(j - 1) < y.m
             top == x.m * Pow2(j)
         IN  [m |-> RoundNearestEven((top * Pow2(23)) \div y.m,
                                     (top * Pow2(23)) % y.m, y.m),
              s |-> 23 + j]

\* f32::ceil, as an integer
f32_ceil(x) == (x.m + Pow2(x.s) - 1) \div Pow2(x.s)

\* `x as u8` for a float that holds the integer x >= 0: the values the cast can
\* give; out of range it saturates, and was undefined before Rust 1.45
as_u8(x) == IF x <= 255 THEN {x} ELSE 0..255

\* Experiment::progress after raw_progress: the values it can return
progress_of(results_len, crates_len) ==
    IF crates_len # 0
    THEN as_u8(f32_ceil(f32_div(f32_times_100(as_f32(results_len)),
                                as_f32(crates_len))))
    ELSE {0}

RECURSIVE SumOver(_, _)
\* SELECT COUNT(*): the rows of `table` (key -> number of rows) under `keys`
SumOver(table, keys) ==
    IF keys = {} THEN 0
    ELSE LET k == CHOOSE k \in keys : TRUE
         IN  table[k] + SumOver(table, keys \ {k})

\* Experiment::raw_progress: <<results_len, crates_len * 2>>
raw_progress(name) ==
    <<SumOver(results, {k \in ResultKeys : k[1] = name}),
      Cardinality({row \in experiment_crates :
                        row.experiment = name /\ ~row.skipped}) * 2>>

\* Experiment::progress
progress(name) == progress_of(raw_progress(name)[1], raw_progress(name)[2])

\* get_uncompleted_crates without `results.crate = experiment_crates.crate`
get_uncompleted_crates_any_crate(name) ==
    {row.crate : row \in
        {row \in experiment_crates :
            /\ row.experiment = name
            /\ SumOver(results, {k \in ResultKeys : k[1] = name}) < 2}}

\* Experiment::get_uncompleted_crates: the crates of the experiment with fewer
\* than 2 rows in results
get_uncompleted_crates(name) ==
    {row.crate : row \in
        {row \in experiment_crates :
            /\ row.experiment = name
            /\ SumOver(results, {k \in ResultKeys :
                                    k[1] = name /\ k[2] = row.crate}) < 2}}

\* the rows experiment_crates can hold: one row per experiment and crate
CrateRows == [experiment : Names, crate : Crates, skipped : BOOLEAN]
CrateTables ==
    {rows \in SUBSET CrateRows :
        \A r1, r2 \in rows :
            (r1.experiment = r2.experiment /\ r1.crate = r2.crate) => r1 = r2}

\* DatabaseDB::record_result: one more row in results
RecordResult(name, crate, toolchain) ==
    /\ SumOver(results, ResultKeys) < MaxResults
    /\ results' = [results EXCEPT ![<<name, crate, toolchain>>] = @ + 1]
    /\ UNCHANGED <<experiment_crates, probe>>
    /\ UNCHANGED scheduling

\* a caller calls ex.get_uncompleted_crates(&db)
CallUncompletedCrates(name) ==
    /\ probe' = [NoProbe EXCEPT !.op = "get_uncompleted_crates",
                                !.input = <<name>>,
                                !.out = Some(get_uncompleted_crates(name))]
    /\ probe' # probe
    /\ UNCHANGED <<experiment_crates, results>>
    /\ UNCHANGED scheduling

\* a caller asks for both completion measures of an experiment, no write in
\* between: ex.get_uncompleted_crates(&db) and ex.raw_progress(&db)
CallCompletionMeasures(name) ==
    /\ probe' = [NoProbe EXCEPT
                    !.op = "completion",
                    !.input = <<name>>,
                    !.out = Some([uncompleted |-> get_uncompleted_crates(name),
                                  progress |-> raw_progress(name)])]
    /\ probe' # probe
    /\ UNCHANGED <<experiment_crates, results>>
    /\ UNCHANGED scheduling

\* a caller calls ex.progress(&db) where raw_progress gives probe.input
CallProgress ==
    /\ probe.op = "progress"
    /\ probe.out = None
    /\ \E out \in progress_of(probe.input[1], probe.input[2]) :
            probe' = [probe EXCEPT !.out = Some(out)]
    /\ UNCHANGED <<experiment_crates, results>>
    /\ UNCHANGED scheduling

\* --------------------------------------------------------- specifications
CallStep(c) ==
    \/ \E a \in Assignees : NextRunBy(c, a)
    \/ NextQuery(c)
    \/ NextSetStatus(c)
    \/ NextStamp(c)
    \/ NextAssign(c)
    \/ NextReturn(c)

\* a holder reads an experiment and calls set_status with a status of `statuses`
HandleStep(h, statuses) ==
    \/ \E n \in Names : Get(h, n)
    \/ \E s \in statuses : SetStatus(h, s)
    \/ SetStatusStamp(h)

\* experiments are created with the inputs of `inputs`
CreateStep(inputs) ==
    \E n \in Names, i \in inputs : CreateExperiment(n, i[1], i[2], i[3])

EnvStep ==
    \/ CreateStep(CreateInputs)
    \/ \E name \in AgentNames, caps \in SUBSET Capabilities :
            SetCapabilities(name, caps)
    \/ Tick

\* a set_status call that moves an experiment out of Running
SetStatusLeaving(h, status) ==
    /\ status # "running"
    /\ handle[h].pc = "held"
    /\ Row(handle[h].exp.name).status = "running"
    /\ SetStatus(h, status)

\* the inputs of the experiments created while calls interleave
InterleavedInputs == {<<0, None, None>>, <<0, None, Some(Agent(<<"1">>))>>}

\* every store statement is a step of its own: the statements of overlapping
\* calls of next interleave, also with those of the holders' set_status calls,
\* which move experiments out of Running
Next ==
    \/ \E c \in Calls : CallStep(c)
    \/ \E h \in Holders :
        \/ \E n \in Names : Get(h, n)
        \/ \E s \in StatusInputs : SetStatusLeaving(h, s)
        \/ SetStatusStamp(h)
    \/ CreateStep(InterleavedInputs)

Spec == Init /\ [][Next]_vars

\* a call of next, or a holder's read and set_status, that has not returned
CallInFlight(c) == call[c].pc # "idle"
HandleInFlight(h) == handle[h].pc # "idle"

\* calls run one after the other, no statement of another call in between, and a
\* holder calls set_status on the copy it has just read
NextSerial ==
    \/ \E c \in Callers :
        /\ \A d \in Calls \ {c} : ~CallInFlight(d)
        /\ \A h \in Handles : ~HandleInFlight(h)
        /\ CallStep(c)
    \/ \E h \in Holders :
        /\ \A d \in Calls : ~CallInFlight(d)
        /\ \A g \in Handles \ {h} : ~HandleInFlight(g)
        /\ HandleStep(h, StatusInputs)
    \/ /\ \A d \in Calls : ~CallInFlight(d)
       /\ \A g \in Handles : ~HandleInFlight(g)
       /\ EnvStep

SpecSerial == Init /\ [][NextSerial]_vars

\* the inputs of the experiments created while holders keep copies
PlainInputs == {<<0, None, None>>}

\* calls run one after the other, and a holder may keep the copy it has read
\* while other calls run, and call set_status on it later
NextCopies ==
    \/ \E c \in Callers :
        /\ \A d \in Calls \ {c} : ~CallInFlight(d)
        /\ \A h \in Handles : handle[h].pc # "stamp"
        /\ CallStep(c)
    \/ \E h \in Holders :
        /\ \A d \in Calls : ~CallInFlight(d)
        /\ \A g \in Handles \ {h} : handle[g].pc # "stamp"
        /\ HandleStep(h, StatusInputs)
    \/ /\ \A d \in Calls : ~CallInFlight(d)
       /\ \A g \in Handles : handle[g].pc # "stamp"
       /\ \/ CreateStep(PlainInputs)
          \/ Tick

SpecCopies == Init /\ [][NextCopies]_vars

\* two callers read copies of an experiment and call set_status on them later,
\* calls running one after the other
NextTwoCopies ==
    \/ \E c \in Callers :
        /\ \A d \in Calls \ {c} : ~CallInFlight(d)
        /\ \A h \in Handles : handle[h].pc # "stamp"
        /\ CallStep(c)
    \/ \E h \in Handles :
        /\ \A d \in Calls : ~CallInFlight(d)
        /\ \A g \in Handles \ {h} : handle[g].pc # "stamp"
        /\ \/ \E n \in Names : GetWithin(h, n, MaxKeptSetStatus)
           \/ \E s \in StatusInputs : SetStatusWithin(h, s, MaxKeptSetStatus)
           \/ SetStatusStamp(h)
    \/ /\ \A d \in Calls : ~CallInFlight(d)
       /\ \A g \in Handles : handle[g].pc # "stamp"
       /\ \/ CreateStep(PlainInputs)
          \/ Tick

SpecTwoCopies == Init /\ [][NextTwoCopies]_vars

\* a caller reads experiments and calls set_status with any status, again and
\* again on the same Experiment or on a copy it read before other calls ran,
\* calls running one after the other
NextKept ==
    \/ \E c \in Callers :
        /\ \A d \in Calls \ {c} : ~CallInFlight(d)
        /\ \A h \in Handles : handle[h].pc # "stamp"
        /\ CallStep(c)
    \/ \E h \in Holders :
        /\ \A d \in Calls : ~CallInFlight(d)
        /\ \A g \in Handles \ {h} : handle[g].pc # "stamp"
        /\ \/ \E n \in Names : GetWithin(h, n, MaxKeptSetStatus)
           \/ \E s \in StatusInputs : SetStatusWithin(h, s, MaxKeptSetStatus)
           \/ SetStatusStamp(h)
           \/ SetStatusStampKept(h)
    \/ /\ \A d \in Calls : ~CallInFlight(d)
       /\ \A g \in Handles : handle[g].pc # "stamp"
       /\ \/ CreateStep(PlainInputs)
          \/ Tick

SpecKept == Init /\ [][NextKept]_vars

\* from_str is called on every text, to_string on every Assignee
InitCodec ==
    /\ InitScheduling
    /\ experiment_crates = {}
    /\ results = [k \in ResultKeys |-> 0]
    /\ probe \in
            {[NoProbe EXCEPT !.op = "from_str", !.input = <<s>>] :
                s \in TextsOf(Tokens, MaxTokens)}
            \cup {[NoProbe EXCEPT !.op = "to_string", !.self = a] :
                    a \in AssigneeValues}

NextCodec ==
    \/ CallFromStr
    \/ CallToString
    \/ CallParseBack

SpecCodec == InitCodec /\ [][NextCodec]_vars

\* progress is called on every pair of counts raw_progress can give
InitProgress ==
    /\ InitScheduling
    /\ experiment_crates = {}
    /\ results = [k \in ResultKeys |-> 0]
    /\ probe \in {[NoProbe EXCEPT !.op = "progress", !.input = <<c, 2 * k>>] :
                    c \in 0..MaxResultsLen, k \in 0..MaxCratesLen}

SpecProgress == InitProgress /\ [][CallProgress]_vars

\* the crates of the experiments are given, results are recorded and callers ask
\* for the uncompleted crates
InitResults ==
    /\ InitScheduling
    /\ experiment_crates \in CrateTables
    /\ results = [k \in ResultKeys |-> 0]
    /\ probe = NoProbe

NextResults ==
    \/ \E k \in ResultKeys : RecordResult(k[1], k[2], k[3])
    \/ \E n \in Names : CallUncompletedCrates(n)

SpecResults == InitResults /\ [][NextResults]_vars

\* the crates of the experiments are given, some of them skipped, results are
\* recorded and callers ask for both completion measures
NextCompletion ==
    \/ \E k \in ResultKeys : RecordResult(k[1], k[2], k[3])
    \/ \E n \in Names : CallCompletionMeasures(n)

SpecCompletion == InitResults /\ [][NextCompletion]_vars

\* ----------------------------------------------------------------- claims
\* the experiments that are Running and assigned to assignee a
RunningFor(a) ==
    {n \in Names : /\ Exists(n)
                   /\ Row(n).status = "running"
                   /\ Row(n).assigned_to = Some(to_string(a))}

\* an agent satisfies a requirement iff it is None or among its capabilities
Satisfies(a, requirement) ==
    \/ a.kind = "CLI"
    \/ requirement = None
    \/ requirement[1] \in agent_capabilities[a.name]

\* experiment n is Queued, unassigned or pre-assigned to a, and a satisfies it
EligibleFor(n, a) ==
    /\ Exists(n)
    /\ Row(n).status = "queued"
    /\ Row(n).assigned_to \in {None, Some(to_string(a))}
    /\ Satisfies(a, Row(n).requirement)

\* the agent that keeps polling
TheAgent == Agent(<<"1">>)

\* the rows CreateExperiment::apply can have written by MaxClock
QueuedRows ==
    {[priority |-> i[1], created_at |-> t, started_at |-> None,
      completed_at |-> None, status |-> "queued",
      assigned_to |-> IF i[3] = None THEN None ELSE Some(to_string(i[3][1])),
      requirement |-> i[2]] : i \in CreateInputs, t \in 0..MaxClock}

\* a queue that is not added to: every experiment exists, Queued, created in
\* the order of the names, and the agents' capabilities are set
InitQueue ==
    /\ experiments \in [Names -> {Some(row) : row \in QueuedRows}]
    /\ \A m, n \in Names : m < n => Row(m).created_at <= Row(n).created_at
    /\ agent_capabilities \in [AgentNames -> SUBSET Capabilities]
    /\ clock \in 0..MaxClock
    /\ \A n \in Names : Row(n).created_at <= clock
    /\ call = [c \in Calls |-> IdleCall]
    /\ handle = [h \in Handles |-> IdleHandle]
    /\ set_status_calls = 0
    /\ claimed = [a \in Assignees |-> None]
    /\ InitAccounting

\* the agent's Running experiment is moved out of Running
MoveOutOfAgent ==
    \E n \in RunningFor(TheAgent), s \in StatusInputs : MoveOut(n, s)

\* assignees poll, each poll one step, and Running experiments are moved out
\* of Running, to any status but Queued
NextQueue ==
    \/ \E a \in Assignees : Poll(a)
    \/ \E n \in Names, s \in StatusInputs : MoveOut(n, s)
    \/ Tick

\* ... the agent keeps polling, and what it runs is moved out of Running
SpecQueue ==
    /\ InitQueue
    /\ [][NextQueue]_vars
    /\ WF_vars(Poll(TheAgent))
    /\ WF_vars(MoveOutOfAgent)

\* in this step call c returns
Returns(c) == call[c].pc # "done" /\ call'[c].pc = "done"

\* in this step call c returns (true, E), E being call[c].exp
ReturnsNew(c) == call[c].pc = "assign" /\ call'[c].pc = "done"

\* C1: no two overlapping calls of next by distinct assignees both return
\* (true, E) for the same experiment E, E having been Queued once (no set_status
\* call has put anything back).
NoDoubleClaim ==
    \A c, d \in Calls :
        (/\ c # d
         /\ set_status_calls = 0
         /\ call[c].pc = "done" /\ call[d].pc = "done"
         /\ call[c].assignee # call[d].assignee
         /\ call[c].result.tag = "some" /\ call[c].result.new
         /\ call[d].result.tag = "some" /\ call[d].result.new)
        => call[c].result.exp.name # call[d].result.exp.name

\* C2: in every state reachable by interleaving creation, calls of next (also
\* overlapping ones for the same assignee) and set_status calls that move an
\* experiment out of Running, each assignee has at most one Running experiment.
AtMostOneRunning == \A a \in Assignees : Cardinality(RunningFor(a)) <= 1

\* C3 as claimed: once next(a) has returned (true, E) and no status or assignment
\* write to E has followed, a call next(a) returns (false, E), Running and
\* assigned to a, and writes nothing.
RepollIdempotent ==
    [][\A c \in Calls, a \in Assignees :
        (/\ call[c].pc = "idle" /\ call'[c].pc # "idle"
         /\ call'[c].assignee = a
         /\ claimed[a] # None)
        => /\ call'[c].pc = "done"
           /\ call'[c].result.tag = "some"
           /\ ~call'[c].result.new
           /\ call'[c].result.exp.name = claimed[a][1]
           /\ call'[c].result.exp.status = "running"
           /\ call'[c].result.exp.assigned_to = Some(a)
           /\ experiments' = experiments]_vars

\* C3 as amended: once next(a) has returned (true, E), no status or assignment
\* write to E has followed and E is the only experiment Running and assigned to
\* a, a call next(a) returns (false, E), Running and assigned to a, and writes
\* nothing, whatever other experiments are queued.
RepollIdempotentWhenOnlyRunning ==
    [][\A c \in Calls, a \in Assignees :
        (/\ call[c].pc = "idle" /\ call'[c].pc # "idle"
         /\ call'[c].assignee = a
         /\ claimed[a] # None
         /\ RunningFor(a) = {claimed[a][1]})
        => /\ call'[c].pc = "done"
           /\ call'[c].result.tag = "some"
           /\ ~call'[c].result.new
           /\ call'[c].result.exp.name = claimed[a][1]
           /\ call'[c].result.exp.status = "running"
           /\ call'[c].result.exp.assigned_to = Some(a)
           /\ experiments' = experiments]_vars

\* a re-poll has returned (false, E) while another experiment a could take is Queued
RepollWitness ==
    \E c \in Calls :
        /\ call[c].pc = "done"
        /\ call[c].result.tag = "some"
        /\ ~call[c].result.new
        /\ claimed[call[c].assignee] = Some(call[c].result.exp.name)
        /\ \E m \in Names \ {call[c].result.exp.name} :
                EligibleFor(m, call[c].assignee)

\* C4: while E is Running and assigned to A, no call of next by another
\* assignee B (agent or CLI) returns E.
NoDoubleAssignment ==
    [][\A c \in Calls :
        (Returns(c) /\ call'[c].result.tag = "some")
        => \A a \in Assignees \ {call'[c].assignee} :
                call'[c].result.exp.name \notin RunningFor(a)]_vars

\* next(A) returned E, E is still Running for A, and a poll by B has returned
\* something else or nothing
NoDoubleAssignmentWitness ==
    \E c \in Calls, a \in Assignees :
        /\ call[c].pc = "done"
        /\ call[c].assignee # a
        /\ claimed[a] # None
        /\ claimed[a][1] \in RunningFor(a)
        /\ call[c].result.tag \in {"some", "none"}
        /\ call[c].result.exp.name # claimed[a][1]

\* C5 as claimed: no call of next by a named agent returns, as new or as a
\* re-poll, an experiment whose requirement the agent's capabilities lack.
CapabilityGatingAnyReturn ==
    [][\A c \in Calls :
        (/\ Returns(c)
         /\ call'[c].result.tag = "some"
         /\ call'[c].assignee.kind = "Agent")
        => Satisfies(call'[c].assignee, call'[c].result.exp.requirement)]_vars

\* C5 as amended: no call of next by a named agent returns as newly assigned an
\* experiment whose requirement the agent's capabilities lack.
CapabilityGating ==
    [][\A c \in Calls :
        (/\ Returns(c)
         /\ call'[c].result.tag = "some"
         /\ call'[c].result.new
         /\ call'[c].assignee.kind = "Agent")
        => Satisfies(call'[c].assignee, call'[c].result.exp.requirement)]_vars

\* an agent has been newly assigned an experiment that has a requirement
CapabilityGatingWitness ==
    \E c \in Calls :
        /\ call[c].pc = "done"
        /\ call[c].assignee.kind = "Agent"
        /\ call[c].result.tag = "some"
        /\ call[c].result.new
        /\ call[c].result.exp.requirement # None

\* C6: no call of next by Y returns an experiment whose assigned_to is set to
\* another assignee X, whatever its status.
PreassignedExclusive ==
    [][\A c \in Calls :
        (Returns(c) /\ call'[c].result.tag = "some")
        => Row(call'[c].result.exp.name).assigned_to
                \in {None, Some(to_string(call'[c].assignee))}]_vars

\* an experiment run by X was put back to Queued, and a poll by Y has returned
\* something else or nothing
PreassignedExclusiveWitness ==
    \E c \in Calls, n \in Names, x \in Assignees :
        /\ Exists(n)
        /\ Row(n).status = "queued"
        /\ Row(n).started_at # None
        /\ Row(n).assigned_to = Some(to_string(x))
        /\ call[c].pc = "done"
        /\ call[c].assignee # x
        /\ call[c].result.tag \in {"some", "none"}
        /\ call[c].result.exp.name # n

\* C7: when next(a) newly assigns E while an eligible Queued experiment is
\* pre-assigned to a, E is one pre-assigned to a.
PreassignedFirst ==
    [][\A c \in Calls :
        (/\ ReturnsNew(c)
         /\ \E m \in Names :
                /\ EligibleFor(m, call[c].assignee)
                /\ Row(m).assigned_to # None)
        => Row(call[c].exp.name).assigned_to # None]_vars

\* next(a) is about to return a pre-assigned experiment while an eligible
\* unassigned one has a higher priority
PreassignedFirstWitness ==
    \E c \in Calls, m \in Names :
        /\ call[c].pc = "assign"
        /\ Row(call[c].exp.name).assigned_to = Some(to_string(call[c].assignee))
        /\ EligibleFor(m, call[c].assignee)
        /\ Row(m).assigned_to = None
        /\ Row(m).priority > call[c].exp.priority

\* C8: when next(a) returns (true, E), no other experiment eligible for a in
\* E's pre-assignment class has a higher priority than E, or E's priority and
\* an earlier created_at.
PriorityThenAge ==
    [][\A c \in Calls, m \in Names :
        (/\ ReturnsNew(c)
         /\ m # call[c].exp.name
         /\ EligibleFor(m, call[c].assignee)
         /\ Row(m).assigned_to = Row(call[c].exp.name).assigned_to)
        => /\ Row(m).priority <= Row(call[c].exp.name).priority
           /\ Row(m).priority = Row(call[c].exp.name).priority
                => Row(m).created_at >= Row(call[c].exp.name).created_at]_vars

\* next(a) is about to return E while an eligible experiment of E's class has
\* a lower priority, E being the younger of the two
PriorityThenAgeWitness ==
    \E c \in Calls, m \in Names :
        /\ call[c].pc = "assign"
        /\ m # call[c].exp.name
        /\ EligibleFor(m, call[c].assignee)
        /\ Row(m).assigned_to = Row(call[c].exp.name).assigned_to
        /\ Row(m).priority < call[c].exp.priority
        /\ Row(m).created_at < call[c].exp.created_at

\* C9: the persisted started_at of an experiment never changes once it is set.
StartedAtStampedOnce ==
    [][\A n \in Names :
        (Exists(n) /\ Row(n).started_at # None)
        => experiments'[n][1].started_at = Row(n).started_at]_vars

\* C10: completed_at becomes set only in a set_status call that changes the
\* status from Running to a status that is neither Running nor Failed.
CompletedAtOnlyAfterLeaving ==
    [][\A n \in Names :
        (/\ Exists(n)
         /\ Row(n).completed_at = None
         /\ experiments'[n][1].completed_at # None)
        => \E h \in Handles :
                /\ handle[h].pc = "stamp"
                /\ handle[h].exp.name = n
                /\ handle[h].exp.status = "running"
                /\ handle[h].status \notin {"running", "failed"}]_vars

\* C11: the persisted completed_at of an experiment never changes once it is
\* set, whichever copies the set_status calls are made through.
CompletedAtStampedOnce ==
    [][\A n \in Names :
        (Exists(n) /\ Row(n).completed_at # None)
        => experiments'[n][1].completed_at = Row(n).completed_at]_vars

\* C12: when next(a) returns (true, E), no other call having written E since the
\* candidate read, E's row has status Running (written before the assignment
\* write), assigned_to = a and started_at set, and the returned experiment
\* has the row's status, assigned_to and started_at.
ClaimPostState ==
    [][\A c \in Calls :
        ReturnsNew(c)
        => LET e == call[c].exp.name
               row == experiments'[e][1]
               returned == call'[c].result.exp
           IN  /\ Row(e).status = "running"
               /\ row.status = "running"
               /\ row.assigned_to = Some(to_string(call[c].assignee))
               /\ row.started_at # None
               /\ returned.name = e
               /\ returned.status = "running"
               /\ returned.assigned_to = Some(call[c].assignee)
               /\ returned.started_at = row.started_at]_vars

\* next has returned (true, E) for an experiment that had run before: its
\* started_at is older than the call
ClaimPostStateWitness ==
    \E c \in Calls :
        /\ call[c].pc = "done"
        /\ call[c].result.tag = "some"
        /\ call[c].result.new
        /\ Row(call[c].result.exp.name).completed_at # None
        /\ call[c].result.exp.started_at # None

\* a has no Running experiment and no Queued experiment it could take
NothingToDo(a) ==
    /\ RunningFor(a) = {}
    /\ ~\E n \in Names : EligibleFor(n, a)

\* C13: next(a) returns None exactly when a has no Running experiment assigned
\* to it and no eligible Queued experiment exists; otherwise it returns its
\* Running experiment or goes on to claim an eligible one, never an error.
NoneMeansNothingToDo ==
    [][\A c \in Calls :
        LET a == call'[c].assignee
            none == call'[c].pc = "done" /\ call'[c].result.tag = "none"
        IN  /\ (call[c].pc = "idle" /\ call'[c].pc # "idle")
                => /\ ~none
                   /\ (call'[c].pc = "done" /\ call'[c].result.tag = "some")
                        <=> RunningFor(a) # {}
                   /\ call'[c].pc = "query" <=> RunningFor(a) = {}
            /\ (call[c].pc = "query" /\ call'[c].pc # "query")
                => /\ none <=> NothingToDo(a)
                   /\ ~none => /\ call'[c].pc = "set_status"
                               /\ EligibleFor(call'[c].exp.name, a)]_vars

\* next has returned None while a Queued experiment exists that the caller
\* may not take
NoneMeansNothingToDoWitness ==
    \E c \in Calls, n \in Names :
        /\ call[c].pc = "done"
        /\ call[c].result.tag = "none"
        /\ Exists(n)
        /\ Row(n).status = "queued"

\* the Queued experiments that are unassigned or pre-assigned to the CLI
CliCandidates ==
    {n \in Names : /\ Exists(n)
                   /\ Row(n).status = "queued"
                   /\ Row(n).assigned_to \in {None, Some(CliText)}}

\* candidate m comes before candidate n: pre-assigned first, then the higher
\* priority, then the earlier created_at
CliBefore(m, n) ==
    \/ Row(m).assigned_to # None /\ Row(n).assigned_to = None
    \/ /\ (Row(m).assigned_to = None) <=> (Row(n).assigned_to = None)
       /\ \/ Row(m).priority > Row(n).priority
          \/ /\ Row(m).priority = Row(n).priority
             /\ Row(m).created_at < Row(n).created_at

\* C14: the candidate read of next(CLI) takes the first Queued experiment that
\* is unassigned or pre-assigned to the CLI, by pre-assignment, priority and
\* age, whatever its requirement, and finds none only when there is none.
CliExempt ==
    [][\A c \in Calls :
        (/\ call[c].pc = "query"
         /\ call[c].assignee = CLI
         /\ call'[c].pc # "query")
        => IF CliCandidates = {}
           THEN call'[c].pc = "done" /\ call'[c].result.tag = "none"
           ELSE /\ call'[c].pc = "set_status"
                /\ call'[c].exp.name \in CliCandidates
                /\ \A m \in CliCandidates : ~CliBefore(m, call'[c].exp.name)]_vars

\* next(CLI) has claimed an experiment whose requirement no agent advertises
CliExemptWitness ==
    \E c \in Calls :
        /\ call[c].pc = "done"
        /\ call[c].assignee = CLI
        /\ call[c].result.tag = "some"
        /\ call[c].result.new
        /\ call[c].result.exp.requirement # None
        /\ \A name \in AgentNames :
                call[c].result.exp.requirement[1] \notin agent_capabilities[name]

\* C15: for result counts c and expected counts e > 0 with 0 <= c <= e,
\* progress returns 100 if and only if c = e.
ProgressHundredIffComplete ==
    (/\ probe.op = "progress"
     /\ probe.out # None
     /\ probe.input[2] > 0
     /\ probe.input[1] <= probe.input[2])
    => (probe.out = Some(100) <=> probe.input[1] = probe.input[2])

\* the results recorded for a crate of an experiment, on both toolchains
ResultsOf(name, crate) ==
    results[<<name, crate, "start">>] + results[<<name, crate, "end">>]

\* C16: get_uncompleted_crates returns exactly the crates of the experiment
\* that have fewer than 2 recorded results, and as results only accumulate, a
\* crate that has reached 2 results is in no later answer.
UncompletedCratesExact ==
    [][/\ \A n \in Names, c \in Crates : ResultsOf(n, c)' >= ResultsOf(n, c)
       /\ probe' # probe
            => probe'.out =
                Some({c \in Crates :
                        /\ \E row \in experiment_crates :
                                row.experiment = probe'.input[1] /\ row.crate = c
                        /\ ResultsOf(probe'.input[1], c) < 2})]_vars

\* the experiment has two crates, one with 2 results and one with 1, and
\* get_uncompleted_crates has returned the one with 1
UncompletedCratesWitness ==
    /\ probe.op = "get_uncompleted_crates"
    /\ probe.out = Some({"crate2"})
    /\ \A c \in Crates : \E row \in experiment_crates :
            row.experiment = probe.input[1] /\ row.crate = c
    /\ ResultsOf(probe.input[1], "crate1") = 2
    /\ ResultsOf(probe.input[1], "crate2") = 1

\* C17 as claimed: for CLI and for Agent(name) with any name that is not
\* empty, parsing the text that formatting gives yields the value again.
RoundTripAnyName ==
    probe.op = "parse_back" => probe.out[1] = ParseOk(probe.self)

\* a name with a character that is not white space
NotBlank(name) == \E i \in 1..Len(name) : name[i] \notin {" ", "\t", "\n"}

\* C17 as amended: for CLI and for Agent(name) with any name that has a
\* character other than white space, parsing the text that formatting gives
\* yields the value again.
RoundTrip ==
    (/\ probe.op = "parse_back"
     /\ probe.self.kind = "Agent" => NotBlank(probe.self.name))
    => probe.out[1] = ParseOk(probe.self)

\* an agent whose name holds a ':' has been formatted and parsed back
RoundTripWitness ==
    /\ probe.op = "parse_back"
    /\ probe.self \in {Agent(<<":", "x">>), Agent(<<"x", ":">>)}
    /\ probe.out[1].tag = "Ok"

\* s is empty or made of white space only
Blank(s) == ~NotBlank(s)

\* s begins with p; what follows p in s
HasPrefix(s, p) == Len(s) >= Len(p) /\ SubSeq(s, 1, Len(p)) = p
After(s, p) == SubSeq(s, Len(p) + 1, Len(s))

\* the text of s before its first ':', all of s when it has none
BeforeColon(s) ==
    LET colons == {i \in 1..Len(s) : s[i] = ":"}
    IN  IF colons = {} THEN s
        ELSE SubSeq(s, 1, (CHOOSE i \in colons : \A j \in colons : i <= j) - 1)

\* the rejection table as claimed
ClaimedParse(s) ==
    IF Blank(s) \/ s = AgentText \o <<":">> THEN ParseErr("Empty", <<>>)
    ELSE IF HasPrefix(s, AgentText \o <<":">>)
    THEN ParseOk(Agent(After(s, AgentText \o <<":">>)))
    ELSE IF s = CliText THEN ParseOk(CLI)
    ELSE IF HasPrefix(s, CliText \o <<":">>) THEN ParseErr("UnexpectedPayload", <<>>)
    ELSE ParseErr("InvalidKind", BeforeColon(s))

\* the rejection table with "agent" alone and a blank name rejected as Empty
TableParse(s) ==
    IF \/ Blank(s)
       \/ s = AgentText
       \/ HasPrefix(s, AgentText \o <<":">>) /\ Blank(After(s, AgentText \o <<":">>))
    THEN ParseErr("Empty", <<>>)
    ELSE IF HasPrefix(s, AgentText \o <<":">>)
    THEN ParseOk(Agent(After(s, AgentText \o <<":">>)))
    ELSE IF s = CliText THEN ParseOk(CLI)
    ELSE IF HasPrefix(s, CliText \o <<":">>) THEN ParseErr("UnexpectedPayload", <<>>)
    ELSE ParseErr("InvalidKind", BeforeColon(s))

\* C18 as claimed: from_str gives Empty for a blank input and for "agent:",
\* Agent(name) for "agent:<name>", CLI for "cli", UnexpectedPayload for "cli:"
\* and what follows, InvalidKind(text before the first ':') for any other text.
ParserTableAsClaimed ==
    (probe.op = "from_str" /\ probe.out # None)
    => probe.out[1] = ClaimedParse(probe.input[1])

\* C18 as amended: from_str gives Empty for a blank input, for "agent" alone
\* and for "agent:" followed by a blank name, Agent(name) for "agent:<name>"
\* with any other name, CLI for "cli", UnexpectedPayload for "cli:" and what
\* follows, InvalidKind(text before the first ':') for any other text; each
\* input has exactly one of the five outcomes.
ParserTable ==
    (probe.op = "from_str" /\ probe.out # None)
    => probe.out[1] = TableParse(probe.input[1])

\* from_str has rejected "agent:" followed by a blank as Empty
ParserTableWitness ==
    /\ probe.op = "from_str"
    /\ probe.input = <<AgentText \o <<":", " ">>>>
    /\ probe.out # None
    /\ probe.out[1].tag = "Empty"

\* the fields of experiment n that next never writes are the same after the step
SameButClaimFields(n) ==
    /\ (experiments'[n] = None) <=> (experiments[n] = None)
    /\ Exists(n) =>
        /\ experiments'[n][1].priority = Row(n).priority
        /\ experiments'[n][1].created_at = Row(n).created_at
        /\ experiments'[n][1].requirement = Row(n).requirement
        /\ experiments'[n][1].completed_at = Row(n).completed_at

\* C19: the statements of a call of next that returns None or (false, E) write
\* nothing; those of a call that returns (true, E) change only E's status,
\* started_at and assigned_to, and no other table.
FrameOfNext ==
    [][\A c \in Calls :
        call'[c] # call[c]
        => /\ <<agent_capabilities, experiment_crates, results>>'
                = <<agent_capabilities, experiment_crates, results>>
           /\ IF call[c].pc \in {"set_status", "stamp", "assign"}
              THEN /\ SameButClaimFields(call[c].exp.name)
                   /\ \A n \in Names \ {call[c].exp.name} :
                            experiments'[n] = experiments[n]
              ELSE experiments' = experiments]_vars

\* next has returned (true, E) while another experiment exists
FrameOfNextWitness ==
    \E c \in Calls, m \in Names :
        /\ call[c].pc = "done"
        /\ call[c].result.tag = "some"
        /\ call[c].result.new
        /\ m # call[c].result.exp.name
        /\ Exists(m)

\* C20: in every state of the store, the states between the writes of a claim
\* included, an experiment whose status is Running has an assignee.
RunningHasAssignee ==
    \A n \in Names :
        (Exists(n) /\ Row(n).status = "running") => Row(n).assigned_to # None

\* a set_status call has written the status of experiment n and not yet its
\* timestamp
StampPending(n) ==
    \/ \E c \in Calls : call[c].pc = "stamp" /\ call[c].exp.name = n
    \/ \E h \in Handles : handle[h].pc = "stamp" /\ handle[h].exp.name = n

\* C21: after any sequence of next and set_status calls, with any target
\* statuses and through fresh, kept or stale copies, an experiment whose
\* persisted completed_at is set has its persisted started_at set, and an
\* experiment whose persisted status is Running has started_at set.
CompletedImpliesStarted ==
    \A n \in Names :
        (Exists(n) /\ ~StampPending(n))
        => /\ Row(n).completed_at # None => Row(n).started_at # None
           /\ Row(n).status = "running" => Row(n).started_at # None

\* an experiment is Running with completed_at set, all the set_status calls
\* made on it having returned
CompletedImpliesStartedWitness ==
    \E n \in Names :
        /\ Exists(n)
        /\ ~StampPending(n)
        /\ \A c \in Calls : ~CallInFlight(c)
        /\ Row(n).status = "running"
        /\ Row(n).completed_at # None
        /\ set_status_calls = MaxKeptSetStatus

\* C22: with at most one result recorded per (crate, toolchain) pair, over
\* crate sets that may hold skipped crates, get_uncompleted_crates returns the
\* empty list if and only if raw_progress returns completed_units =
\* expected_units.
CompletionMeasuresAgree ==
    [][(/\ probe' # probe
        /\ \A k \in ResultKeys : results[k] <= 1)
       => LET out == probe'.out[1]
          IN  out.uncompleted = {} <=> out.progress[1] = out.progress[2]]_vars

\* C23: in a queue that is not added to, where the agent keeps polling next
\* and every experiment Running for it is moved out of Running to a status
\* other than Queued, every Queued experiment that is unassigned or
\* pre-assigned to the agent and whose requirement it satisfies becomes Running.
NoStarvation ==
    \A n \in Names :
        EligibleFor(n, TheAgent) ~> (Row(n).status = "running")

\* the agent runs the second experiment it could take, one with a requirement,
\* after the first one it ran was moved out of Running
NoStarvationWitness ==
    \E m, n \in Names :
        /\ m # n
        /\ Row(m).status \notin {"queued", "running"}
        /\ Row(m).assigned_to = Some(to_string(TheAgent))
        /\ n \in RunningFor(TheAgent)
        /\ Row(n).requirement # None
        /\ call = [c \in Calls |-> IdleCall]
        /\ Row(m).started_at # None

====
